---- MODULE Spec2Model ----
(***************************************************************************)
(* Model of the orchestration core of autodevops-ai-orchestrator:          *)
(*   - TaskQueue            (src/src/core/task-queue.js)                   *)
(*   - OrchestrationEngine  (src/src/core/orchestration-engine.js)         *)
(*   - WorkflowExecutor     (src/src/core/state-manager.js, lines 75-278)  *)
(* Every `await` of the code is a suspension point: the synchronous code   *)
(* between two suspension points is one action.                            *)
(***************************************************************************)
EXTENDS Integers, Sequences, FiniteSets, TLC

\* ------------------------------------------------------------------ bounds
MaxTasks == 4
MaxLoops == 2
MaxWorkflows == 1
MaxRawSteps == 2
MaxUuids == 8
MaxRecorded == 3
MaxSockets == 3

\* --------------------------------------------------------- program constants
maxConcurrent == 3
DefaultTimeout == 60000
DefaultRetryCount == 2
DefaultEstimatedDuration == 300
FallbackEstimatedDuration == 360

VARIABLES
  \* TaskQueue
  queue,            \* this.queue: indices (object identities) of queued tasks
  tasks,            \* every task object created by addTask, in creation order
  activeJobs,       \* this.activeJobs: a Set of task ids
  processing,       \* this.processing
  loops,            \* number of live startProcessing loops (asleep in setTimeout)
  taskEvents,       \* events the queue has emitted, each with the task it carries
  \* OrchestrationEngine
  isInitialized,    \* this.isInitialized
  activeWorkflows,  \* keys of this.activeWorkflows
  workflow,         \* the workflow objects, by identity
  nextUuid,         \* number of uuidv4() values drawn for step ids
  pc,               \* position of each executeWorkflow call ("rejected": it threw)
  ret,              \* envelope each executeWorkflow call resolved with
  cancelPending,    \* cancelWorkflow calls suspended at `await executor.cancel`
  cancelLog,        \* outcome of every cancelWorkflow call that has settled
  \* WorkflowExecutor
  runningWorkflows, \* keys of this.runningWorkflows
  results,          \* `results` local of each execute call
  race,             \* Promise.race of the step in flight
  call,             \* provider operation invoked for each step
  timers,           \* setTimeout timers armed by executeStep and not yet fired
  outcome,          \* how the race of each step attempted so far settled
  execResult,       \* settlement of the promise returned by execute
  emitted,          \* events emitted by the executor, per workflow
  \* StateManager
  metrics,          \* this.metrics
  recorded,         \* the workflow argument of every updateMetrics call so far
  snapshot,         \* the object the last StateManager.getMetrics call returned
  \* callers of the engine's queries
  reply,            \* outcome of the last getWorkflowStatus / getMetrics call
  \* parseWorkflowPlan called on its own
  planSource,       \* the aiResponse argument of the last call
  planResult,       \* what that call returned
  \* FastMCPBridge
  sockets,          \* state of every WebSocket the bridge has created
  ws,               \* this.ws: index of a socket, or 0 for null
  isConnected,      \* this.isConnected
  reconnectAttempts,\* this.reconnectAttempts
  reconnectTimers,  \* setTimeout timers armed by scheduleReconnect, not yet fired
  connectTimers,    \* connection-timeout timers armed by connect, not yet fired
  cleaned,          \* cleanup() has been called
  socketsAtCleanup, \* how many sockets existed when it was called
  alive             \* the process has not died of an uncaught exception

qvars == <<queue, tasks, activeJobs, processing, loops, taskEvents>>
evars == <<isInitialized, activeWorkflows, workflow, nextUuid,
           pc, ret, cancelPending, cancelLog>>
xvars == <<runningWorkflows, results, race, call, timers, outcome,
           execResult, emitted>>
mvars == <<metrics, recorded, snapshot>>
bvars == <<sockets, ws, isConnected, reconnectAttempts, reconnectTimers,
           connectTimers, cleaned, socketsAtCleanup, alive>>
ovars == <<mvars, planSource, planResult, reply, bvars>>
vars == <<qvars, evars, xvars, ovars>>

\* ================================================================ TaskQueue

\* Ids a new task can carry (task.id || Date.now().toString()): a value not
\* used so far, or the id of an earlier task (a caller-supplied duplicate, or
\* the same millisecond).  Ids are named in order of first use.
TaskIds == 1 .. Len(tasks) + 1
TaskTypes == {"code_analysis", "bogus"}
KnownTaskTypes == {"code_analysis", "test_execution", "deployment"}

\* addTask: the queued task object ({...task, id, status: 'queued'}).
QueuedTask(id, type) == [id |-> id, type |-> type, status |-> "queued"]

\* An emitted queue event: its name and the task object it carries.
TaskEvent(t, name) == <<t, name>>

addTaskInFront(id, type) ==
  /\ Len(tasks) < MaxTasks
  /\ id \in TaskIds /\ type \in TaskTypes
  /\ tasks' = Append(tasks, QueuedTask(id, type))
  /\ queue' = <<Len(tasks) + 1>> \o queue
  /\ taskEvents' = taskEvents \cup {TaskEvent(Len(tasks) + 1, "task:queued")}
  /\ UNCHANGED <<activeJobs, processing, loops>>
\* addTask(task): push to the tail of the queue and emit task:queued.
addTask(id, type) ==
  /\ Len(tasks) < MaxTasks
  /\ id \in TaskIds /\ type \in TaskTypes
  /\ tasks' = Append(tasks, QueuedTask(id, type))
  /\ queue' = Append(queue, Len(tasks) + 1)
  /\ taskEvents' = taskEvents \cup {TaskEvent(Len(tasks) + 1, "task:queued")}
  /\ UNCHANGED <<activeJobs, processing, loops>>

\* The admission test of the loop body.
CanAdmitBug == Len(queue) > 0
CanAdmit == Len(queue) > 0 /\ Cardinality(activeJobs) < maxConcurrent

\* Body of one iteration of the while loop of startProcessing: shift the head
\* and run processTask up to its first await.
LoopBody ==
  IF CanAdmit
    THEN /\ queue' = Tail(queue)
         /\ activeJobs' = activeJobs \cup {tasks[Head(queue)].id}
         /\ tasks' = [tasks EXCEPT ![Head(queue)].status = "processing"]
         /\ taskEvents' = taskEvents \cup {TaskEvent(Head(queue), "task:started")}
    ELSE UNCHANGED <<queue, tasks, activeJobs, taskEvents>>

\* startProcessing(): returns at once when a loop is already marked running,
\* otherwise marks it and performs the first iteration.
startProcessing ==
  /\ loops < MaxLoops
  /\ IF processing
       THEN UNCHANGED qvars
       ELSE /\ processing' = TRUE
            /\ loops' = loops + 1
            /\ LoopBody

\* The loop wakes from its 100 ms sleep: re-test `this.processing`, then either
\* run the body again or leave the loop.
Tick ==
  /\ loops > 0
  /\ IF processing
       THEN LoopBody /\ UNCHANGED <<processing, loops>>
       ELSE loops' = loops - 1
            /\ UNCHANGED <<queue, tasks, activeJobs, processing, taskEvents>>

\* stop()
stop ==
  /\ processing
  /\ processing' = FALSE
  /\ UNCHANGED <<queue, tasks, activeJobs, loops, taskEvents>>

executeTaskNeverThrows(type) == TRUE
\* executeTask: known types resolve, any other type throws.
executeTaskOk(type) == type \in KnownTaskTypes

TaskSettleNoFinally(t) ==
  /\ t \in 1 .. Len(tasks)
  /\ tasks[t].status = "processing"
  /\ tasks' = [tasks EXCEPT ![t].status =
                 IF executeTaskOk(tasks[t].type) THEN "completed" ELSE "failed"]
  /\ taskEvents' = taskEvents \cup
       {TaskEvent(t, IF executeTaskOk(tasks[t].type) THEN "task:completed"
                                                    ELSE "task:failed")}
  /\ activeJobs' = activeJobs
  /\ UNCHANGED <<queue, processing, loops>>
\* processTask resumes after `await this.executeTask(task)`: try/catch/finally.
TaskSettle(t) ==
  /\ t \in 1 .. Len(tasks)
  /\ tasks[t].status = "processing"
  /\ tasks' = [tasks EXCEPT ![t].status =
                 IF executeTaskOk(tasks[t].type) THEN "completed" ELSE "failed"]
  /\ taskEvents' = taskEvents \cup
       {TaskEvent(t, IF executeTaskOk(tasks[t].type) THEN "task:completed"
                                                    ELSE "task:failed")}
  /\ activeJobs' = activeJobs \ {tasks[t].id}
  /\ UNCHANGED <<queue, processing, loops>>

\* getQueueStatus()
getQueueStatus ==
  [queued |-> Len(queue), active |-> Cardinality(activeJobs), processing |-> processing]

QueueInit ==
  /\ queue = <<>>
  /\ tasks = <<>>
  /\ activeJobs = {}
  /\ processing = FALSE
  /\ loops = 0
  /\ taskEvents = {}

\* ============================================================ Plan normalizer

\* The integrations registered at process start, and the operations each one
\* implements.
Integrations == {"github", "taskMaster", "fastMCP", "playwright", "phoenix"}

Implements(integration) ==
  CASE integration = "github" -> {"analyzeRequirements", "generateCode", "commitChanges"}
    [] integration = "taskMaster" -> {"analyzeRequirements", "generateCode", "generatePlan"}
    [] integration = "playwright" -> {"runTests"}
    [] integration = "phoenix" -> {"setupMonitoring"}
    [] OTHER -> {}

\* A step of an executable plan.  An absent type or integration of a raw step
\* is "", an absent numeric field is Undefined.
Step(id, type, integration, timeout, retryCount) ==
  [id |-> id, type |-> type, integration |-> integration,
   timeout |-> timeout, retryCount |-> retryCount]

\* The value of a numeric field (id, timeout, retryCount) a raw step does not
\* carry.
Undefined == -1

\* `value || fallback` takes the fallback for undefined and for 0.
Falsy(value) == value = Undefined \/ value = 0

\* A raw step of a parsed AI response; isNull marks a JSON null in its place.
RawStep(isNull, id, type, integration, timeout, retryCount) ==
  [isNull |-> isNull, id |-> id, type |-> type, integration |-> integration,
   timeout |-> timeout, retryCount |-> retryCount]

\* An AI response: kind "notjson" (JSON.parse throws), "null", "scalar" (a
\* JSON number, string, boolean or array) or "object"; stepsKind tells whether
\* the object has no steps field, a steps field that is not an array, or an array.
Response(kind, stepsKind, steps, estimatedDuration, priority) ==
  [kind |-> kind, stepsKind |-> stepsKind, steps |-> steps,
   estimatedDuration |-> estimatedDuration, priority |-> priority]

Plan(steps, estimatedDuration, priority) ==
  [steps |-> steps, estimatedDuration |-> estimatedDuration, priority |-> priority,
   rollbackStrategy |-> "automatic"]

\* The n-th value drawn from uuidv4(): distinct from every id an AI response
\* supplies (those are below 1000) and from every other drawn value.
Uuid(n) == 1000 + n

\* Number of raw steps among the first k that draw a uuid (step.id || uuidv4()).
RECURSIVE UuidsDrawn(_, _)
UuidsDrawn(raw, k) ==
  IF k = 0 THEN 0
  ELSE UuidsDrawn(raw, k - 1) + (IF Falsy(raw[k].id) THEN 1 ELSE 0)

\* The callback of plan.steps.map in validateWorkflowPlan, for the k-th raw
\* step, when n uuids were drawn before the call.
ValidateStep(raw, k, n) ==
  Step(IF ~Falsy(raw[k].id) THEN raw[k].id ELSE Uuid(n + UuidsDrawn(raw, k)),
       raw[k].type,
       raw[k].integration,
       IF ~Falsy(raw[k].timeout) THEN raw[k].timeout ELSE DefaultTimeout,
       IF ~Falsy(raw[k].retryCount) THEN raw[k].retryCount ELSE DefaultRetryCount)

\* validateWorkflowPlan throws a TypeError on a null plan and on a null step.
ValidateThrows(resp) ==
  \/ resp.kind = "null"
  \/ /\ resp.kind = "object" /\ resp.stepsKind = "array"
     /\ \E k \in 1 .. Len(resp.steps) : resp.steps[k].isNull

\* validateWorkflowPlan(plan), when it does not throw.
validateWorkflowPlan(resp, n) ==
  Plan(IF resp.kind = "object" /\ resp.stepsKind = "array"
         THEN [k \in 1 .. Len(resp.steps) |-> ValidateStep(resp.steps, k, n)]
         ELSE <<>>,
       IF resp.kind = "object" /\ resp.estimatedDuration # 0
         THEN resp.estimatedDuration ELSE DefaultEstimatedDuration,
       IF resp.kind = "object" /\ resp.priority # ""
         THEN resp.priority ELSE "medium")

\* createFallbackPlan(), when n uuids were drawn before the call.
createFallbackPlan(n) ==
  Plan(<<Step(Uuid(n + 1), "analyze", "taskMaster", 30000, 1),
         Step(Uuid(n + 2), "generate_code", "taskMaster", 120000, 2),
         Step(Uuid(n + 3), "run_tests", "playwright", 180000, 1),
         Step(Uuid(n + 4), "commit_changes", "github", 30000, 2)>>,
       FallbackEstimatedDuration, "medium")

\* parseWorkflowPlan(aiResponse): the fallback plan when JSON.parse or
\* validateWorkflowPlan throws.
UsesFallback(resp) == resp.kind = "notjson" \/ ValidateThrows(resp)

\* Uuids drawn by parseWorkflowPlan (those drawn before a throw included).
RECURSIVE FirstNull(_, _)
FirstNull(raw, k) ==
  IF k > Len(raw) THEN k ELSE IF raw[k].isNull THEN k ELSE FirstNull(raw, k + 1)

ParseUuids(resp) ==
  IF resp.kind = "object" /\ resp.stepsKind = "array"
    THEN IF ValidateThrows(resp)
           THEN UuidsDrawn(resp.steps, FirstNull(resp.steps, 1) - 1) + 4
           ELSE UuidsDrawn(resp.steps, Len(resp.steps))
    ELSE IF UsesFallback(resp) THEN 4 ELSE 0

parseWorkflowPlan(resp, n) ==
  IF UsesFallback(resp)
    THEN createFallbackPlan(n + ParseUuids(resp) - 4)
    ELSE validateWorkflowPlan(resp, n)

\* ============================================================ shared shapes

WorkflowIds == 1 .. MaxWorkflows
\* Ids when one more executeWorkflow call runs next to those of WorkflowIds.
ConcurrentIds == 1 .. MaxWorkflows + 1

Err(kind, stepId, timeout, name) ==
  [kind |-> kind, stepId |-> stepId, timeout |-> timeout, name |-> name]
NoError == Err("none", 0, 0, "")

NoPlan == Plan(<<>>, 0, "")

\* finalResult of WorkflowExecutor.execute (summary.totalSteps is results.length).
FinalResult(w, res) ==
  [workflowId |-> w, status |-> "completed", steps |-> res, totalSteps |-> Len(res)]
NoResult == [workflowId |-> 0, status |-> "", steps |-> <<>>, totalSteps |-> 0]

\* The workflow object created by executeWorkflow.
NewWorkflow ==
  [status |-> "pending", plan |-> NoPlan, steps |-> <<>>,
   result |-> NoResult, error |-> NoError]
NoWorkflow == [NewWorkflow EXCEPT !.status = "none"]

\* The envelope executeWorkflow resolves with, and the status the workflow
\* object has at that moment.
Envelope(w, success, result, error, status) ==
  [settled |-> TRUE, workflowId |-> w, success |-> success, result |-> result,
   error |-> error, statusAtReturn |-> status]
NoEnvelope == [Envelope(0, FALSE, NoResult, NoError, "") EXCEPT !.settled = FALSE]

\* What a query of the engine answered: the operation, its argument, whether
\* it threw, and the workflow object or the metrics object it returned.
\* (error is the message of the Error thrown, "" when none was).
Reply(op, w, threw, error, wf, value) ==
  [op |-> op, w |-> w, threw |-> threw, error |-> error, workflow |-> wf,
   metrics |-> value]
EngineMetrics(active, total, rate, average, uptime) ==
  [activeWorkflows |-> active, totalWorkflows |-> total, successRate |-> rate,
   averageDuration |-> average, uptime |-> uptime]
NoEngineMetrics == EngineMetrics(0, 0, [num |-> 0, den |-> 1], [num |-> 0, den |-> 1], 0)
NoReply == Reply("none", 0, FALSE, "", NoWorkflow, NoEngineMetrics)

\* What parseWorkflowPlan is called with and returns, before any call.
NoResponse == Response("none", "absent", <<>>, 0, "")
NotParsed == [called |-> FALSE, plan |-> NoPlan]

Settlement(state, result, error) == [state |-> state, result |-> result, error |-> error]

TerminalStatuses == {"completed", "failed", "cancelled"}

\* ========================================================= WorkflowExecutor

\* The provider operation each handle*Step of runStepWithIntegration calls.
OpOf(type) ==
  CASE type = "analyze" -> "analyzeRequirements"
    [] type = "generate_code" -> "generateCode"
    [] type = "run_tests" -> "runTests"
    [] type = "commit_changes" -> "commitChanges"
    [] type = "monitor" -> "setupMonitoring"
    [] type = "deploy" -> "deploy"
    [] OTHER -> ""

\* The `type` tag of the object each handle*Step returns.
ResultType(type) ==
  CASE type = "analyze" -> "analysis"
    [] type = "generate_code" -> "code_generation"
    [] type = "run_tests" -> "test_results"
    [] type = "commit_changes" -> "commit"
    [] type = "monitor" -> "monitoring"
    [] type = "deploy" -> "deployment"
    [] OTHER -> ""

FateNoLookup(step) == IF OpOf(step.type) = "" THEN "unknowntype" ELSE "invoked"
\* The synchronous part of runStepWithIntegration: "invoked" when a provider
\* operation is called, otherwise the reason the step promise is rejected at once.
Fate(step) ==
  IF step.integration \notin Integrations THEN "notfound"
  ELSE IF OpOf(step.type) = "" THEN "unknowntype"
  ELSE IF OpOf(step.type) \notin Implements(step.integration) THEN "nomethod"
  ELSE "invoked"

StepErrorUnnamed(kind, step) == Err(kind, 0, step.timeout, "")
\* The error a failed race rejects with.
StepError(kind, step) ==
  CASE kind = "timeout" -> Err("timeout", step.id, step.timeout, "")
    [] kind = "notfound" -> Err("notfound", 0, 0, step.integration)
    [] kind = "unknowntype" -> Err("unknowntype", 0, 0, step.type)
    [] OTHER -> Err(kind, 0, 0, "")

\* The value a successful step resolves with: the provider's answer to the
\* i-th step of workflow w, tagged by the handler.
StepResult(w, i, step) == [type |-> ResultType(step.type), data |-> <<w, i>>]

LogEntryShared(w, i, step) ==
  [id |-> step.id, type |-> step.type, status |-> "completed",
   result |-> StepResult(1, i, step)]
\* The record execute pushes on workflow.steps after a successful step.
LogEntry(w, i, step) ==
  [id |-> step.id, type |-> step.type, status |-> "completed",
   result |-> StepResult(w, i, step)]

\* Index of the step execute is waiting for.
Current(w) == Len(results[w]) + 1

\* executeStep(step, workflow) up to `await Promise.race`: the provider
\* operation is invoked (or the step promise rejected) and the timer armed.
BeginStep(w, i, plan) ==
  LET fate == Fate(plan.steps[i]) IN
  /\ call' = [call EXCEPT ![w] =
                [k \in 1 .. Len(plan.steps) |->
                   IF k = i THEN (IF fate = "invoked" THEN "pending" ELSE "none")
                   ELSE IF k \in DOMAIN call[w] THEN call[w][k] ELSE "none"]]
  /\ timers' = [timers EXCEPT ![w] = @ \cup {i}]
  /\ race' = [race EXCEPT ![w] = IF fate = "invoked" THEN "pending" ELSE fate]
  /\ outcome' = [outcome EXCEPT ![w] =
                   IF fate = "invoked" THEN @ ELSE Append(@, fate)]

FinishOkNoFinally(w, res) ==
  /\ emitted' = [emitted EXCEPT ![w] = Append(@, "workflow:completed")]
  /\ activeWorkflows' = activeWorkflows \ {w}
  /\ runningWorkflows' = runningWorkflows
  /\ execResult' = [execResult EXCEPT ![w] = Settlement("resolved", FinalResult(w, res), NoError)]
\* The success exit of execute: emit workflow:completed (the engine's listener
\* deletes the registry entry), return finalResult, finally-delete.
FinishOk(w, res) ==
  /\ emitted' = [emitted EXCEPT ![w] = Append(@, "workflow:completed")]
  /\ activeWorkflows' = activeWorkflows \ {w}
  /\ runningWorkflows' = runningWorkflows \ {w}
  /\ execResult' = [execResult EXCEPT ![w] = Settlement("resolved", FinalResult(w, res), NoError)]

FinishErrClearsRegistry(w, error) ==
  /\ emitted' = [emitted EXCEPT ![w] = Append(@, "workflow:failed")]
  /\ activeWorkflows' = {}
  /\ runningWorkflows' = runningWorkflows \ {w}
  /\ execResult' = [execResult EXCEPT ![w] = Settlement("rejected", NoResult, error)]
\* The catch exit of execute: emit workflow:failed (the engine's listener
\* deletes the registry entry), rethrow, finally-delete.
FinishErr(w, error) ==
  /\ emitted' = [emitted EXCEPT ![w] = Append(@, "workflow:failed")]
  /\ activeWorkflows' = activeWorkflows \ {w}
  /\ runningWorkflows' = runningWorkflows \ {w}
  /\ execResult' = [execResult EXCEPT ![w] = Settlement("rejected", NoResult, error)]

CallWinsLate(w, i) == i = Current(w)
\* Whether the settlement of the provider call of step i settles the race in
\* flight: only while that race is the race of step i and is still pending.
CallWins(w, i) == race[w] = "pending" /\ i = Current(w)

\* The provider operation of step i resolves.
ProviderResolve(w, i) ==
  /\ i \in DOMAIN call[w] /\ call[w][i] = "pending"
  /\ call' = [call EXCEPT ![w][i] = "resolved"]
  /\ IF CallWins(w, i)
       THEN /\ race' = [race EXCEPT ![w] = "ok"]
            /\ outcome' = [outcome EXCEPT ![w] = Append(@, "ok")]
       ELSE UNCHANGED <<race, outcome>>
  /\ UNCHANGED <<ovars, qvars, evars, runningWorkflows, results, timers, execResult, emitted>>

\* The provider operation of step i throws.
ProviderReject(w, i) ==
  /\ i \in DOMAIN call[w] /\ call[w][i] = "pending"
  /\ call' = [call EXCEPT ![w][i] = "rejected"]
  /\ IF CallWins(w, i)
       THEN /\ race' = [race EXCEPT ![w] = "provider"]
            /\ outcome' = [outcome EXCEPT ![w] = Append(@, "provider")]
       ELSE UNCHANGED <<race, outcome>>
  /\ UNCHANGED <<ovars, qvars, evars, runningWorkflows, results, timers, execResult, emitted>>

TimerHitsAnyRace(w, i) == race[w] = "pending"
\* Which armed timer rejects the race in flight: only the timer of its own step.
TimerHits(w, i) == race[w] = "pending" /\ i = Current(w)

\* The timer armed by executeStep for step i fires (it is never cleared).
TimerFire(w, i) ==
  /\ i \in timers[w]
  /\ timers' = [timers EXCEPT ![w] = @ \ {i}]
  /\ IF TimerHits(w, i)
       THEN /\ race' = [race EXCEPT ![w] = "timeout"]
            /\ outcome' = [outcome EXCEPT ![w] = Append(@, "timeout")]
       ELSE UNCHANGED <<race, outcome>>
  /\ UNCHANGED <<ovars, qvars, evars, runningWorkflows, results, call, execResult, emitted>>

ProceedsOnTimeout(r) == r \in {"ok", "timeout"}
ProceedsOnThrow(r) == r \in {"ok", "provider"}
\* Whether the loop of execute goes on to the next step after a settled race.
Proceeds(r) == r = "ok"

StepContinueRetries(w) ==
  LET i == Current(w)
      plan == workflow[w].plan
      step == plan.steps[i] IN
  /\ pc[w] = "executing" /\ execResult[w].state = "pending"
  /\ race[w] \notin {"idle", "pending"}
  /\ IF Proceeds(race[w])
       THEN /\ results' = [results EXCEPT ![w] = Append(@, StepResult(w, i, step))]
            /\ workflow' = [workflow EXCEPT ![w].steps = Append(@, LogEntry(w, i, step))]
            /\ IF i < Len(plan.steps)
                 THEN /\ BeginStep(w, i + 1, plan)
                      /\ UNCHANGED <<activeWorkflows, runningWorkflows, execResult, emitted>>
                 ELSE /\ FinishOk(w, Append(results[w], StepResult(w, i, step)))
                      /\ race' = [race EXCEPT ![w] = "idle"]
                      /\ UNCHANGED <<call, timers, outcome>>
       ELSE IF step.retryCount > 0 /\ Len(outcome[w]) < i + step.retryCount
         THEN /\ BeginStep(w, i, plan)
              /\ UNCHANGED <<workflow, results, activeWorkflows, runningWorkflows,
                             execResult, emitted>>
         ELSE /\ FinishErr(w, StepError(race[w], step))
              /\ race' = [race EXCEPT ![w] = "idle"]
              /\ UNCHANGED <<workflow, results, call, timers, outcome>>
  /\ UNCHANGED <<ovars, qvars, isInitialized, nextUuid, pc, ret,
                 cancelPending, cancelLog>>
\* execute resumes after `await this.executeStep(step, workflow)`.
StepContinue(w) ==
  LET i == Current(w)
      plan == workflow[w].plan
      step == plan.steps[i] IN
  /\ pc[w] = "executing" /\ execResult[w].state = "pending"
  /\ race[w] \notin {"idle", "pending"}
  /\ IF Proceeds(race[w])
       THEN /\ results' = [results EXCEPT ![w] = Append(@, StepResult(w, i, step))]
            /\ workflow' = [workflow EXCEPT ![w].steps = Append(@, LogEntry(w, i, step))]
            /\ IF i < Len(plan.steps)
                 THEN /\ BeginStep(w, i + 1, plan)
                      /\ UNCHANGED <<activeWorkflows, runningWorkflows, execResult, emitted>>
                 ELSE /\ FinishOk(w, Append(results[w], StepResult(w, i, step)))
                      /\ race' = [race EXCEPT ![w] = "idle"]
                      /\ UNCHANGED <<call, timers, outcome>>
       ELSE /\ FinishErr(w, StepError(race[w], step))
            /\ race' = [race EXCEPT ![w] = "idle"]
            /\ UNCHANGED <<workflow, results, call, timers, outcome>>
  /\ UNCHANGED <<ovars, qvars, isInitialized, nextUuid, pc, ret,
                 cancelPending, cancelLog>>

\* WorkflowExecutor.cancel(workflowId), which has no await.
ExecutorCancel(w) ==
  IF w \in runningWorkflows
    THEN /\ workflow' = [workflow EXCEPT ![w].status = "cancelling"]
         /\ runningWorkflows' = runningWorkflows \ {w}
    ELSE UNCHANGED <<workflow, runningWorkflows>>

\* ====================================================== OrchestrationEngine

\* The AI responses generatePlan resolves with.
AIResponses ==
  { Response("object", "absent", <<>>, 60, ""),
    Response("object", "array",
             <<RawStep(FALSE, 7, "analyze", "taskMaster", 30000, 1),
               RawStep(FALSE, Undefined, "run_tests", "playwright",
                       Undefined, Undefined)>>, 60, "high"),
    Response("object", "array",
             <<RawStep(FALSE, 7, "analyze", "github", 30000, 1),
               RawStep(FALSE, 7, "monitor", "", Undefined, Undefined)>>, 0, "") }

\* initialize(): builds the executor, the task queue (whose initialize starts
\* the admission loop) and the state manager, and registers the listeners.
initialize ==
  /\ ~isInitialized
  /\ isInitialized' = TRUE
  /\ startProcessing
  /\ UNCHANGED <<activeWorkflows, workflow, nextUuid, pc, ret,
                 cancelPending, cancelLog, xvars, ovars>>

\* executeWorkflow(instruction, options) up to `await this.createWorkflowPlan`:
\* a call on an engine that is not initialized throws; otherwise the workflow
\* object is created and registered and generatePlan is called.
executeWorkflow(w) ==
  /\ pc[w] = "idle"
  /\ \A v \in WorkflowIds : v < w => pc[v] # "idle"
  /\ IF ~isInitialized
       THEN /\ pc' = [pc EXCEPT ![w] = "rejected"]
            /\ UNCHANGED <<activeWorkflows, workflow>>
       ELSE /\ workflow' = [workflow EXCEPT ![w] = NewWorkflow]
            /\ activeWorkflows' = activeWorkflows \cup {w}
            /\ pc' = [pc EXCEPT ![w] = "planning"]
  /\ UNCHANGED <<ovars, qvars, isInitialized, nextUuid, ret, cancelPending, cancelLog, xvars>>

\* generatePlan resolves with resp: createWorkflowPlan returns the parsed plan,
\* executeWorkflow attaches it, marks the workflow running and calls
\* WorkflowExecutor.execute, which runs up to its first await.
PlanResolve(w, resp) ==
  LET plan == parseWorkflowPlan(resp, nextUuid) IN
  /\ pc[w] = "planning"
  /\ nextUuid' = nextUuid + ParseUuids(resp)
  /\ workflow' = [workflow EXCEPT ![w].plan = plan, ![w].status = "running"]
  /\ pc' = [pc EXCEPT ![w] = "executing"]
  /\ results' = [results EXCEPT ![w] = <<>>]
  /\ IF Len(plan.steps) > 0
       THEN /\ BeginStep(w, 1, plan)
            /\ emitted' = [emitted EXCEPT ![w] = Append(@, "workflow:started")]
            /\ runningWorkflows' = runningWorkflows \cup {w}
            /\ execResult' = [execResult EXCEPT ![w] = Settlement("pending", NoResult, NoError)]
            /\ UNCHANGED activeWorkflows
       ELSE /\ emitted' = [emitted EXCEPT ![w] = @ \o <<"workflow:started", "workflow:completed">>]
            /\ activeWorkflows' = activeWorkflows \ {w}
            /\ runningWorkflows' = runningWorkflows \ {w}
            /\ execResult' = [execResult EXCEPT ![w] = Settlement("resolved", FinalResult(w, <<>>), NoError)]
            /\ UNCHANGED <<call, timers, race, outcome>>
  /\ UNCHANGED <<ovars, qvars, isInitialized, ret, cancelPending, cancelLog>>

\* The error generatePlan rejects with (tests/setup.js: 'AI service unavailable').
PlanError == Err("plan", 0, 0, "AI service unavailable")

CatchEnvelopeRethrows(w, error) == NoEnvelope
\* The envelope the catch block of executeWorkflow returns:
\* { success: false, workflowId, error: error.message }.
CatchEnvelope(w, error) == Envelope(w, FALSE, NoResult, error, "failed")

\* generatePlan rejects: the catch block of executeWorkflow.
PlanReject(w) ==
  /\ pc[w] = "planning"
  /\ workflow' = [workflow EXCEPT ![w].status = "failed", ![w].error = PlanError]
  /\ ret' = [ret EXCEPT ![w] = CatchEnvelope(w, PlanError)]
  /\ pc' = [pc EXCEPT ![w] = "done"]
  /\ UNCHANGED <<ovars, qvars, isInitialized, activeWorkflows, nextUuid,
                 cancelPending, cancelLog, xvars>>

StatusLeftRunning == "running"
\* The status executeWorkflow stores when execute has resolved.
StatusOnSuccess == "completed"

\* executeWorkflow resumes after `await this.workflowExecutor.execute(workflow)`.
EngineResume(w) ==
  /\ pc[w] = "executing"
  /\ execResult[w].state \in {"resolved", "rejected"}
  /\ IF execResult[w].state = "resolved"
       THEN /\ workflow' = [workflow EXCEPT ![w].status = StatusOnSuccess,
                                            ![w].result = execResult[w].result]
            /\ ret' = [ret EXCEPT ![w] = Envelope(w, TRUE, execResult[w].result, NoError, StatusOnSuccess)]
       ELSE /\ workflow' = [workflow EXCEPT ![w].status = "failed",
                                            ![w].error = execResult[w].error]
            /\ ret' = [ret EXCEPT ![w] = CatchEnvelope(w, execResult[w].error)]
  /\ pc' = [pc EXCEPT ![w] = "done"]
  /\ UNCHANGED <<ovars, qvars, isInitialized, activeWorkflows, nextUuid,
                 cancelPending, cancelLog, xvars>>

\* What a settled cancelWorkflow call did: the status it found, the status it
\* left, whether it found the id, whether the id is still registered.
CancelRecord(w, entry, exit, found, registered) ==
  [w |-> w, entry |-> entry, exit |-> exit, found |-> found, registered |-> registered]

\* cancelWorkflow(workflowId) up to `await this.workflowExecutor.cancel`; a call
\* that does not reach the await runs to its end.
cancelWorkflow(w) ==
  IF w \notin activeWorkflows
    THEN UNCHANGED vars
    ELSE IF workflow[w].status = "running"
      THEN /\ ExecutorCancel(w)
           /\ cancelPending' = [cancelPending EXCEPT ![w] = @ + 1]
           /\ UNCHANGED <<ovars, qvars, isInitialized, activeWorkflows, nextUuid,
                          pc, ret, cancelLog, results, race, call, timers, outcome,
                          execResult, emitted>>
      ELSE /\ activeWorkflows' = activeWorkflows \ {w}
           /\ cancelLog' = cancelLog \cup
                  {CancelRecord(w, workflow[w].status, workflow[w].status, TRUE, FALSE)}
           /\ UNCHANGED <<ovars, qvars, isInitialized, workflow, nextUuid,
                          pc, ret, cancelPending, xvars>>

\* cancelWorkflow resumes after the await: mark cancelled, delete, return.
CancelResume(w) ==
  /\ cancelPending[w] > 0
  /\ cancelPending' = [cancelPending EXCEPT ![w] = @ - 1]
  /\ workflow' = [workflow EXCEPT ![w].status = "cancelled"]
  /\ activeWorkflows' = activeWorkflows \ {w}
  /\ cancelLog' = cancelLog \cup {CancelRecord(w, "running", "cancelled", TRUE, FALSE)}
  /\ UNCHANGED <<ovars, qvars, isInitialized, nextUuid, pc, ret, xvars>>

\* ============================================================= StateManager

\* Numbers that need not be whole (averageDuration, getSuccessRate) are kept as
\* exact fractions in lowest terms.
RECURSIVE Gcd(_, _)
Gcd(a, b) == IF b = 0 THEN a ELSE Gcd(b, a % b)

Rat(num, den) ==
  LET g == Gcd(IF num < 0 THEN -num ELSE num, den) IN
  [num |-> num \div g, den |-> den \div g]

\* The workflow argument of updateMetrics: its status, whether it has both
\* completedAt and createdAt, and completedAt - createdAt in milliseconds.
Recorded(status, timed, duration) ==
  [status |-> status, timed |-> timed, duration |-> duration]

CompletedBump(status) == IF status = "completed" THEN 1 ELSE 0
FailedBumpElse(status) == IF status = "completed" THEN 0 ELSE 1
\* `else if (workflow.status === 'failed') this.metrics.failedWorkflows++`
FailedBump(status) == IF status = "failed" THEN 1 ELSE 0

\* The incremental mean of updateMetrics, n being totalWorkflows after its
\* increment: (averageDuration * (n - 1) + duration) / n.
IncrementalMean(avg, n, duration) ==
  Rat(avg.num * (n - 1) + duration * avg.den, avg.den * n)

\* The object a getMetrics call hands out: `alias` tells whether it is
\* this.metrics itself or another object.
NoSnapshot ==
  [taken |-> FALSE, alias |-> FALSE,
   value |-> [totalWorkflows |-> 0, completedWorkflows |-> 0,
              failedWorkflows |-> 0, averageDuration |-> Rat(0, 1)]]
ReturnsInternal(m) == [taken |-> TRUE, alias |-> TRUE, value |-> m]
\* { ...this.metrics }
CopyOf(m) == [taken |-> TRUE, alias |-> FALSE, value |-> m]

\* updateMetrics(workflow)
updateMetrics(wf) ==
  LET n == metrics.totalWorkflows + 1 IN
  /\ Len(recorded) < MaxRecorded
  /\ recorded' = Append(recorded, wf)
  /\ metrics' =
       [totalWorkflows |-> n,
        completedWorkflows |-> metrics.completedWorkflows + CompletedBump(wf.status),
        failedWorkflows |-> metrics.failedWorkflows + FailedBump(wf.status),
        averageDuration |->
          IF wf.timed THEN IncrementalMean(metrics.averageDuration, n, wf.duration)
                      ELSE metrics.averageDuration]
  /\ snapshot' = IF snapshot.alias THEN [snapshot EXCEPT !.value = metrics']
                                   ELSE snapshot
  /\ UNCHANGED <<qvars, evars, xvars, planSource, planResult, reply, bvars>>

\* StateManager.getMetrics(): a copy of this.metrics.  updateMetrics, the only
\* method that writes this.metrics, has no caller in the engine or the executor.
getMetrics == metrics

getTotalWorkflows == metrics.totalWorkflows

getSuccessRate ==
  IF metrics.totalWorkflows = 0 THEN Rat(0, 1)
  ELSE Rat(metrics.completedWorkflows, metrics.totalWorkflows)

getAverageDuration == metrics.averageDuration

\* A caller of StateManager.getMetrics() keeps the returned object.
takeSnapshot ==
  /\ snapshot' = CopyOf(getMetrics)
  /\ UNCHANGED <<qvars, evars, xvars, metrics, recorded, planSource, planResult, reply, bvars>>

\* The caller assigns to a field of the object it was given.
mutateSnapshot(field, value) ==
  /\ snapshot.taken
  /\ snapshot' = [snapshot EXCEPT !.value[field] = value]
  /\ metrics' = IF snapshot.alias THEN [metrics EXCEPT ![field] = value] ELSE metrics
  /\ UNCHANGED <<qvars, evars, xvars, recorded, planSource, planResult, reply, bvars>>

RegisteredEver(w) == workflow[w].status # "none"
\* this.activeWorkflows.get(workflowId) is defined.
Registered(w) == w \in activeWorkflows

\* getWorkflowStatus(workflowId)
getWorkflowStatus(w) ==
  /\ reply' = IF Registered(w)
                THEN Reply("getWorkflowStatus", w, FALSE, "", workflow[w],
                           NoEngineMetrics)
                ELSE Reply("getWorkflowStatus", w, TRUE, "Workflow not found",
                           NoWorkflow, NoEngineMetrics)
  /\ UNCHANGED <<qvars, evars, xvars, mvars, planSource, planResult, bvars>>

\* Values process.uptime() returns.
Uptimes == {1, 2}

\* OrchestrationEngine.getMetrics(): this.stateManager is null until
\* initialize() has run, and calling a method on it throws a TypeError.
engineGetMetrics ==
  /\ IF ~isInitialized
       THEN reply' = Reply("getMetrics", 0, TRUE, "TypeError", NoWorkflow,
                           NoEngineMetrics)
       ELSE \E uptime \in Uptimes :
              reply' = Reply("getMetrics", 0, FALSE, "", NoWorkflow,
                             EngineMetrics(Cardinality(activeWorkflows),
                                           getTotalWorkflows, getSuccessRate,
                                           getAverageDuration, uptime))
  /\ UNCHANGED <<qvars, evars, xvars, mvars, planSource, planResult, bvars>>

\* ============================================================ specifications

\* ============================================================ FastMCPBridge

maxReconnectAttempts == 5
NormalClosure == 1000
AbnormalClosure == 1006

\* States of a WebSocket: CONNECTING, OPEN, CLOSING after close() on an open
\* socket, "dying" after terminate() or after close() during the handshake
\* (the handshake is aborted), CLOSED once its close event has been emitted.
SocketStates == {"connecting", "open", "closing", "dying", "closed"}

\* The constructor.
BridgeInit ==
  /\ sockets = <<>>
  /\ ws = 0
  /\ isConnected = FALSE
  /\ reconnectAttempts = 0
  /\ reconnectTimers = 0
  /\ connectTimers = {}
  /\ cleaned = FALSE
  /\ socketsAtCleanup = 0
  /\ alive = TRUE

\* connect(): create a socket, keep it in this.ws, arm the connection timeout.
connect ==
  /\ Len(sockets) < MaxSockets
  /\ sockets' = Append(sockets, "connecting")
  /\ ws' = Len(sockets) + 1
  /\ connectTimers' = connectTimers \cup {Len(sockets) + 1}

\* initialize(), called once at process start.
bridgeInitialize ==
  /\ alive /\ sockets = <<>> /\ ~cleaned
  /\ connect
  /\ UNCHANGED <<isConnected, reconnectAttempts, reconnectTimers, cleaned,
                 socketsAtCleanup, alive>>

\* The 'open' handler of socket k.
SocketOpen(k) ==
  /\ alive /\ k \in DOMAIN sockets /\ sockets[k] = "connecting"
  /\ sockets' = [sockets EXCEPT ![k] = "open"]
  /\ isConnected' = TRUE
  /\ reconnectAttempts' = 0
  /\ UNCHANGED <<ws, reconnectTimers, connectTimers, cleaned, socketsAtCleanup, alive>>

\* The close codes socket k may report: a failed or aborted connection and a
\* terminated socket report 1006; an open socket, or one closing after
\* close(1000), reports the peer's code or 1006 when the peer is gone.
CloseCodes(state) ==
  IF state \in {"open", "closing"} THEN {NormalClosure, AbnormalClosure}
                                   ELSE {AbnormalClosure}

\* The test of the 'close' handler that leads to scheduleReconnect.
Reconnects(code) ==
  code # NormalClosure /\ reconnectAttempts < maxReconnectAttempts

\* The 'close' handler of socket k, with scheduleReconnect.
SocketClose(k, code) ==
  /\ alive /\ k \in DOMAIN sockets /\ sockets[k] # "closed"
  /\ code \in CloseCodes(sockets[k])
  /\ sockets' = [sockets EXCEPT ![k] = "closed"]
  /\ isConnected' = FALSE
  /\ IF Reconnects(code)
       THEN /\ reconnectAttempts' = reconnectAttempts + 1
            /\ reconnectTimers' = reconnectTimers + 1
       ELSE UNCHANGED <<reconnectAttempts, reconnectTimers>>
  /\ UNCHANGED <<ws, connectTimers, cleaned, socketsAtCleanup, alive>>

\* The timer of scheduleReconnect fires: connect() again.
ReconnectFire ==
  /\ alive /\ reconnectTimers > 0
  /\ reconnectTimers' = reconnectTimers - 1
  /\ connect
  /\ UNCHANGED <<isConnected, reconnectAttempts, cleaned, socketsAtCleanup, alive>>

\* ws.terminate() / the end of ws.close(): what becomes of a socket.
Terminated(state) == IF state = "closed" THEN "closed" ELSE "dying"
Closed(state) ==
  CASE state = "connecting" -> "dying"
    [] state = "open" -> "closing"
    [] OTHER -> state

\* The connection timeout armed by the connect call that created socket k
\* fires: when not connected it terminates this.ws, whatever socket that is
\* by now, and throws a TypeError when this.ws is null.
ConnectTimeout(k) ==
  /\ alive /\ k \in connectTimers
  /\ connectTimers' = connectTimers \ {k}
  /\ IF isConnected
       THEN UNCHANGED <<sockets, alive>>
       ELSE IF ws = 0
         THEN alive' = FALSE /\ UNCHANGED sockets
         ELSE /\ sockets' = [sockets EXCEPT ![ws] = Terminated(@)]
              /\ UNCHANGED alive
  /\ UNCHANGED <<ws, isConnected, reconnectAttempts, reconnectTimers, cleaned,
                 socketsAtCleanup>>

\* cleanup(), called once at shutdown.
cleanup ==
  /\ alive /\ ~cleaned
  /\ isConnected' = FALSE
  /\ sockets' = IF ws = 0 THEN sockets ELSE [sockets EXCEPT ![ws] = Closed(@)]
  /\ ws' = 0
  /\ cleaned' = TRUE
  /\ socketsAtCleanup' = Len(sockets)
  /\ UNCHANGED <<reconnectAttempts, reconnectTimers, connectTimers, alive>>

\* An engine and an executor that have seen no workflow, a state manager that
\* has recorded none, and no call of parseWorkflowPlan.
NoWorkflows ==
  /\ activeWorkflows = {}
  /\ workflow = [w \in ConcurrentIds |-> NoWorkflow]
  /\ nextUuid = 0
  /\ pc = [w \in ConcurrentIds |-> "idle"]
  /\ ret = [w \in ConcurrentIds |-> NoEnvelope]
  /\ cancelPending = [w \in ConcurrentIds |-> 0]
  /\ cancelLog = {}
  /\ runningWorkflows = {}
  /\ results = [w \in ConcurrentIds |-> <<>>]
  /\ race = [w \in ConcurrentIds |-> "idle"]
  /\ call = [w \in ConcurrentIds |-> <<>>]
  /\ timers = [w \in ConcurrentIds |-> {}]
  /\ outcome = [w \in ConcurrentIds |-> <<>>]
  /\ execResult = [w \in ConcurrentIds |-> Settlement("none", NoResult, NoError)]
  /\ emitted = [w \in ConcurrentIds |-> <<>>]
  /\ metrics = [totalWorkflows |-> 0, completedWorkflows |-> 0,
                failedWorkflows |-> 0, averageDuration |-> Rat(0, 1)]
  /\ recorded = <<>>
  /\ snapshot = NoSnapshot
  /\ reply = NoReply
  /\ planResult = NotParsed

\* The state after construction, but for the argument of parseWorkflowPlan.
Construction ==
  /\ QueueInit
  /\ BridgeInit
  /\ isInitialized = FALSE
  /\ NoWorkflows

Init == Construction /\ planSource = NoResponse

\* The task queue on its own.
QueueNext ==
  \/ (\E id \in 1 .. MaxTasks, type \in TaskTypes : addTask(id, type))
       /\ UNCHANGED <<evars, xvars, ovars>>
  \/ startProcessing /\ UNCHANGED <<evars, xvars, ovars>>
  \/ Tick /\ UNCHANGED <<evars, xvars, ovars>>
  \/ stop /\ UNCHANGED <<evars, xvars, ovars>>
  \/ (\E t \in 1 .. MaxTasks : TaskSettle(t)) /\ UNCHANGED <<evars, xvars, ovars>>

QueueSpec == Init /\ [][QueueNext]_vars

\* The queue with its scheduling: the 100 ms timer of the loop always fires,
\* and the handler of every started task settles.
QueueLiveSpec ==
  /\ Init /\ [][QueueNext]_vars
  /\ WF_vars(Tick /\ UNCHANGED <<evars, xvars, ovars>>)
  /\ \A t \in 1 .. MaxTasks : WF_vars(TaskSettle(t) /\ UNCHANGED <<evars, xvars, ovars>>)

\* The raw steps an AI response is built from: a complete step, a step with
\* no field at all, a step of an unknown type with timeout 0, a step with no
\* integration, a step with a negative timeout and retryCount 0, and a JSON
\* null.
RawStepChoices ==
  { RawStep(FALSE, 7, "analyze", "taskMaster", 30000, 1),
    RawStep(FALSE, Undefined, "", "", Undefined, Undefined),
    RawStep(FALSE, 8, "lint", "github", 0, Undefined),
    RawStep(FALSE, Undefined, "run_tests", "", 500, 3),
    RawStep(FALSE, 9, "analyze", "github", -5, 0),
    RawStep(TRUE, Undefined, "", "", Undefined, Undefined) }

RawStepSeqs == UNION { [1 .. n -> RawStepChoices] : n \in 0 .. MaxRawSteps }

\* The strings parseWorkflowPlan is called with.
PlanSources ==
  { Response(kind, "absent", <<>>, 0, "") : kind \in {"notjson", "null", "scalar"} }
  \cup { Response("object", stepsKind, <<>>, d, p) :
           stepsKind \in {"absent", "notarray"}, d \in {0, 60}, p \in {"", "high"} }
  \cup { Response("object", "array", raw, d, p) :
           raw \in RawStepSeqs, d \in {0, 60}, p \in {"", "high"} }

\* parseWorkflowPlan(planSource) is called and returns.
parsePlanCall ==
  /\ ~planResult.called
  /\ nextUuid + ParseUuids(planSource) <= MaxUuids
  /\ planResult' = [called |-> TRUE, plan |-> parseWorkflowPlan(planSource, nextUuid)]
  /\ nextUuid' = nextUuid + ParseUuids(planSource)
  /\ UNCHANGED <<qvars, isInitialized, activeWorkflows, workflow, pc, ret,
                 cancelPending, cancelLog, xvars, mvars, planSource, reply, bvars>>

\* The caller prepares the next call.
nextPlanSource(resp) ==
  /\ planResult.called
  /\ planSource' = resp
  /\ planResult' = NotParsed
  /\ UNCHANGED <<qvars, evars, xvars, mvars, reply, bvars>>

\* parseWorkflowPlan on its own, on every plan source.
ParseInit == Construction /\ planSource \in PlanSources

ParseNext ==
  \/ parsePlanCall
  \/ \E resp \in PlanSources : nextPlanSource(resp)

ParseSpec == ParseInit /\ [][ParseNext]_vars

\* The workflows updateMetrics is called with: completed, failed or
\* cancelled, with or without a completedAt.
RecordedWorkflows ==
  { Recorded(status, FALSE, 0) : status \in {"completed", "failed", "cancelled"} }
  \cup { Recorded(status, TRUE, d) :
           status \in {"completed", "failed", "cancelled"}, d \in {10, 20} }

\* The state manager on its own.
MetricsNext ==
  \/ \E wf \in RecordedWorkflows : updateMetrics(wf)
  \/ takeSnapshot
  \/ \E field \in {"totalWorkflows", "completedWorkflows"} :
       mutateSnapshot(field, 99)
  \/ mutateSnapshot("averageDuration", Rat(99, 1))

MetricsSpec == Init /\ [][MetricsNext]_vars

\* The engine and the executor.
Next ==
  \/ initialize
  \/ \E w \in WorkflowIds : executeWorkflow(w)
  \/ \E w \in WorkflowIds, resp \in AIResponses : PlanResolve(w, resp)
  \/ \E w \in WorkflowIds : PlanReject(w)
  \/ \E w \in WorkflowIds : \E i \in DOMAIN call[w] : ProviderResolve(w, i)
  \/ \E w \in WorkflowIds : \E i \in DOMAIN call[w] : ProviderReject(w, i)
  \/ \E w \in WorkflowIds : \E i \in timers[w] : TimerFire(w, i)
  \/ \E w \in WorkflowIds : StepContinue(w)
  \/ \E w \in WorkflowIds : EngineResume(w)
  \/ \E w \in WorkflowIds : cancelWorkflow(w)
  \/ \E w \in WorkflowIds : CancelResume(w)

Spec == Init /\ [][Next]_vars

\* The engine and the executor, with callers of the engine's queries.
QueryNext ==
  \/ Next
  \/ \E w \in ConcurrentIds : getWorkflowStatus(w)
  \/ engineGetMetrics

QuerySpec == Init /\ [][QueryNext]_vars

\* An initialized engine whose task queue holds one task in flight and one
\* queued (initialize, addTask, a loop tick, addTask).
ConcurrentInit ==
  /\ queue = <<2>>
  /\ tasks = <<[QueuedTask(1, "code_analysis") EXCEPT !.status = "processing"],
               QueuedTask(2, "code_analysis")>>
  /\ activeJobs = {1}
  /\ processing = TRUE
  /\ loops = 1
  /\ taskEvents = {TaskEvent(1, "task:queued"), TaskEvent(1, "task:started"),
                   TaskEvent(2, "task:queued")}
  /\ isInitialized = TRUE
  /\ NoWorkflows
  /\ BridgeInit
  /\ planSource = NoResponse

\* The engine and the executor with one more executeWorkflow call in flight.
ConcurrentNext ==
  \/ \E w \in ConcurrentIds : executeWorkflow(w)
  \/ \E w \in ConcurrentIds, resp \in AIResponses : PlanResolve(w, resp)
  \/ \E w \in ConcurrentIds : PlanReject(w)
  \/ \E w \in ConcurrentIds : \E i \in DOMAIN call[w] : ProviderResolve(w, i)
  \/ \E w \in ConcurrentIds : \E i \in DOMAIN call[w] : ProviderReject(w, i)
  \/ \E w \in ConcurrentIds : \E i \in timers[w] : TimerFire(w, i)
  \/ \E w \in ConcurrentIds : StepContinue(w)
  \/ \E w \in ConcurrentIds : EngineResume(w)
  \/ \E w \in ConcurrentIds : cancelWorkflow(w)
  \/ \E w \in ConcurrentIds : CancelResume(w)

ConcurrentSpec == ConcurrentInit /\ [][ConcurrentNext]_vars

\* The bridge alone: its sockets' events, its timers and cleanup.
BridgeNext ==
  \/ bridgeInitialize /\ UNCHANGED <<qvars, evars, xvars, mvars, planSource, planResult, reply>>
  \/ (\E k \in 1 .. MaxSockets : SocketOpen(k))
       /\ UNCHANGED <<qvars, evars, xvars, mvars, planSource, planResult, reply>>
  \/ (\E k \in 1 .. MaxSockets, code \in {NormalClosure, AbnormalClosure} : SocketClose(k, code))
       /\ UNCHANGED <<qvars, evars, xvars, mvars, planSource, planResult, reply>>
  \/ ReconnectFire /\ UNCHANGED <<qvars, evars, xvars, mvars, planSource, planResult, reply>>
  \/ (\E k \in 1 .. MaxSockets : ConnectTimeout(k))
       /\ UNCHANGED <<qvars, evars, xvars, mvars, planSource, planResult, reply>>
  \/ cleanup /\ UNCHANGED <<qvars, evars, xvars, mvars, planSource, planResult, reply>>

BridgeSpec == Init /\ [][BridgeNext]_vars

\* ==================================================================== claims

\* Steps of the plan attached to workflow w.
PlanLen(w) == Len(workflow[w].plan.steps)

\* A cancelWorkflow call has found workflow w running (it is suspended at its
\* await, or has returned).
CancelledWhileRunning(w) ==
  \/ cancelPending[w] > 0
  \/ \E r \in cancelLog : r.w = w /\ r.entry = "running"

\* No cancelWorkflow call has found workflow w.
NeverCancelled(w) ==
  /\ cancelPending[w] = 0
  /\ \A r \in cancelLog : r.w # w

\* Every step of the plan of w has run and its provider call won its race.
AllStepsOk(w) ==
  /\ execResult[w].state # "none"
  /\ Len(outcome[w]) = PlanLen(w)
  /\ \A k \in 1 .. Len(outcome[w]) : outcome[w][k] = "ok"

\* C1: the active count reported by getQueueStatus never exceeds maxConcurrent,
\* under any interleaving of addTask, loop ticks and task completions.
C1_ActiveWithinMax == getQueueStatus.active <= maxConcurrent

\* C1 witness: three jobs are active and a fourth task waits in the queue.
C1_Witness == Cardinality(activeJobs) = maxConcurrent /\ Len(queue) > 0 /\ loops > 0

\* C2: within one execute call provider operations are invoked in plan order
\* and never overlap: when the operation of step i+1 has been invoked, the
\* operation of step i has resolved and its result has been collected.
C2_StepsInOrder ==
  \A w \in WorkflowIds : \A i \in DOMAIN call[w] :
    (i > 1 /\ call[w][i] # "none") =>
      /\ call[w][i - 1] = "resolved"
      /\ Len(results[w]) >= i - 1
      /\ \A j \in DOMAIN call[w] : (j # i /\ call[w][j] = "pending") => FALSE

\* C2 witness: the second step's operation is in flight after the first resolved.
C2_Witness ==
  \E w \in WorkflowIds : 2 \in DOMAIN call[w] /\ call[w][2] = "pending"

C4_FailFast ==
  \A w \in WorkflowIds : \A k \in DOMAIN call[w] :
    call[w][k] = "rejected" =>
      /\ \A j \in DOMAIN call[w] : j > k => call[w][j] = "none"
      /\ ret[w].settled => (~ret[w].success /\ ret[w].statusAtReturn = "failed")

\* C4 witness: step 1 of a two-step plan threw and executeWorkflow has returned.
C4_Witness ==
  \E w \in WorkflowIds :
    /\ PlanLen(w) = 2 /\ call[w][1] = "rejected" /\ outcome[w] = <<"provider">>
    /\ ret[w].settled

\* C5 (as claimed): after step k throws, the executed-steps log holds k-1
\* success records followed by one failure record for step k.
C5_FailureRecorded ==
  \A w \in WorkflowIds : \A k \in DOMAIN call[w] :
    (outcome[w] # <<>> /\ Len(outcome[w]) = k /\ outcome[w][k] = "provider"
       /\ execResult[w].state = "rejected") =>
      /\ Len(workflow[w].steps) = k
      /\ \A j \in 1 .. k - 1 : workflow[w].steps[j].status = "completed"
      /\ workflow[w].steps[k].status = "failed"

\* C6: when the timer of step k fires before the provider call settles, no
\* later step is invoked and the workflow fails with a timeout error that
\* names step k.
C6_TimeoutFailsStep ==
  \A w \in WorkflowIds : \A k \in 1 .. Len(outcome[w]) :
    outcome[w][k] = "timeout" =>
      /\ \A j \in DOMAIN call[w] : j > k => call[w][j] = "none"
      /\ ret[w].settled =>
           /\ ~ret[w].success
           /\ ret[w].statusAtReturn = "failed"
           /\ ret[w].error = Err("timeout", workflow[w].plan.steps[k].id,
                                 workflow[w].plan.steps[k].timeout, "")
           /\ workflow[w].error = ret[w].error

\* C6 witness: the second step timed out while its call was pending and
\* executeWorkflow has returned.
C6_Witness ==
  \E w \in WorkflowIds :
    /\ outcome[w] = <<"ok", "timeout">> /\ ret[w].settled

\* C7 (as claimed): a terminal status never changes.
C7_TerminalFinal ==
  [][\A w \in WorkflowIds :
       workflow[w].status \in TerminalStatuses =>
         workflow'[w].status = workflow[w].status]_vars

\* C8 (as claimed): once cancelWorkflow has been called on a running workflow,
\* no further provider operation is invoked for it.
C8_NoStepAfterCancel ==
  [][\A w \in WorkflowIds :
       CancelledWhileRunning(w) =>
         \A i \in DOMAIN call[w] : call[w][i] = "none" => call'[w][i] = "none"]_vars

\* C9 (as claimed): the result of the invocation in flight at cancel time is
\* discarded: it reaches neither the executed-steps log nor the result list
\* executeWorkflow returns.
C9_InFlightDiscarded ==
  [][\A w \in WorkflowIds :
       CancelledWhileRunning(w) =>
         /\ workflow'[w].steps = workflow[w].steps
         /\ results'[w] = results[w]]_vars

\* C10 (as claimed): cancelWorkflow on a registered workflow that is pending
\* or running leaves it cancelled and unregistered.
C10_CancelLeavesCancelled ==
  \A r \in cancelLog :
    (r.found /\ r.entry \in {"pending", "running"}) =>
      (r.exit = "cancelled" /\ ~r.registered)

\* C11 (as claimed): a cancelWorkflow call on the id of a workflow whose status
\* is already completed, failed or cancelled ends with the not-found error: no
\* settled call has found such a workflow.
C11_TerminalCancelNotFound ==
  \A r \in cancelLog : r.entry \in TerminalStatuses => ~r.found

\* C12 (as claimed): no entry of activeWorkflows has a terminal status.
C12_NoTerminalRegistered ==
  \A w \in activeWorkflows : workflow[w].status \notin TerminalStatuses

\* C13 (as claimed): getMetrics counts every settled executeWorkflow call once
\* in totalWorkflows, and once in completedWorkflows when it completed.
C13_RecordedOnce ==
  /\ getMetrics.totalWorkflows =
       Cardinality({w \in WorkflowIds : ret[w].settled})
  /\ getMetrics.completedWorkflows =
       Cardinality({w \in WorkflowIds : ret[w].settled /\ ret[w].success})

\* C14 (as claimed): no executeWorkflow call rejects, and a call that is over
\* has resolved with an envelope whose success is a boolean.
C14_NeverRejects ==
  \A w \in WorkflowIds :
    /\ pc[w] # "rejected"
    /\ pc[w] = "done" => (ret[w].settled /\ ret[w].success \in BOOLEAN)

\* No provider operation invoked for w has thrown or lost its race to the timer.
ProvidersSucceed(w) ==
  /\ \A i \in DOMAIN call[w] : call[w][i] # "rejected"
  /\ \A k \in 1 .. Len(outcome[w]) : outcome[w][k] \notin {"provider", "timeout"}

\* C17 (as claimed): when generatePlan has returned a string and no provider
\* operation fails, executeWorkflow returns success true whatever the plan says.
C17_PlanContentCannotFail ==
  \A w \in WorkflowIds :
    (ret[w].settled /\ execResult[w].state # "none"
       /\ ProvidersSucceed(w) /\ NeverCancelled(w)) => ret[w].success

\* executeWorkflow has returned for w without execute having been called: the
\* generatePlan call rejected.
PlanRejected(w) == pc[w] = "done" /\ execResult[w].state = "none"

\* C18: when generatePlan rejects, executeWorkflow resolves with success false,
\* the workflowId and the provider's error message, and no step is executed
\* for that workflow: no operation invoked, no timer armed, nothing logged.
C18_PlanRejectEnvelope ==
  \A w \in WorkflowIds :
    PlanRejected(w) =>
      /\ ret[w].settled /\ ~ret[w].success
      /\ ret[w].workflowId = w
      /\ ret[w].error = PlanError
      /\ call[w] = <<>> /\ timers[w] = {} /\ outcome[w] = <<>>
      /\ workflow[w].steps = <<>> /\ emitted[w] = <<>>

\* C18 witness: generatePlan rejected and executeWorkflow has returned failure.
C18_Witness ==
  \E w \in WorkflowIds :
    PlanRejected(w) /\ ret[w].settled /\ workflow[w].status = "failed"

\* Step k of the plan of w has been reached by execute and names an
\* integration that is not registered.
ReachedUnregistered(w, k) ==
  /\ execResult[w].state # "none"
  /\ k \in 1 .. PlanLen(w)
  /\ Len(results[w]) >= k - 1
  /\ workflow[w].plan.steps[k].integration \notin Integrations

\* C19: when execute reaches a step whose integration is not registered, no
\* provider operation is invoked for that step or a later one, the step is
\* attempted once, and the workflow fails with the not-found error naming the
\* integration.
C19_ProviderNotFound ==
  \A w \in WorkflowIds : \A k \in 1 .. PlanLen(w) :
    ReachedUnregistered(w, k) =>
      /\ \A j \in DOMAIN call[w] : j >= k => call[w][j] = "none"
      /\ Len(results[w]) = k - 1
      /\ Len(outcome[w]) = k /\ outcome[w][k] = "notfound"
      /\ execResult[w].state # "resolved"
      /\ execResult[w].state = "rejected" =>
           execResult[w].error =
             Err("notfound", 0, 0, workflow[w].plan.steps[k].integration)
      /\ ret[w].settled =>
           /\ ~ret[w].success
           /\ ret[w].error =
                Err("notfound", 0, 0, workflow[w].plan.steps[k].integration)

\* C19 witness: the second step named an unregistered integration after the
\* first succeeded, and executeWorkflow has returned.
C19_Witness ==
  \E w \in WorkflowIds :
    /\ ReachedUnregistered(w, 2) /\ call[w][1] = "resolved"
    /\ ret[w].settled /\ workflow[w].status = "failed"

\* The fields of the fallback plan that do not depend on the call.
StepShape(step) == <<step.type, step.integration, step.timeout>>

IsFallbackPlan(plan) ==
  /\ [k \in DOMAIN plan.steps |-> StepShape(plan.steps[k])] =
       << <<"analyze", "taskMaster", 30000>>,
          <<"generate_code", "taskMaster", 120000>>,
          <<"run_tests", "playwright", 180000>>,
          <<"commit_changes", "github", 30000>> >>
  /\ plan.estimatedDuration = 360
  /\ plan.priority = "medium"

\* C15 (as claimed): for every plan source that is not JSON, or is JSON but
\* not an object, parseWorkflowPlan returns the fixed fallback plan.
C15_UnparseableGivesFallback ==
  (planResult.called /\ planSource.kind \in {"notjson", "null", "scalar"}) =>
    IsFallbackPlan(planResult.plan)

\* C16 (as claimed): the plan parseWorkflowPlan returns has at least one step.
C16_PlanNonEmpty ==
  planResult.called => Len(planResult.plan.steps) >= 1

\* A transition in which a step error of workflow a arises (its race is
\* rejected), is caught by execute, or is caught by executeWorkflow.
StepErrorIn(a) ==
  \/ /\ race'[a] # race[a]
     /\ race'[a] \in {"provider", "timeout", "notfound", "unknowntype", "nomethod"}
  \/ execResult[a].state = "pending" /\ execResult'[a].state = "rejected"
  \/ execResult[a].state = "rejected" /\ pc[a] = "executing" /\ pc'[a] = "done"

\* Everything the engine and the executor hold about workflow b.
Untouched(b) ==
  /\ workflow'[b] = workflow[b]
  /\ (b \in activeWorkflows') = (b \in activeWorkflows)
  /\ (b \in runningWorkflows') = (b \in runningWorkflows)
  /\ call'[b] = call[b] /\ timers'[b] = timers[b] /\ race'[b] = race[b]
  /\ results'[b] = results[b] /\ outcome'[b] = outcome[b]
  /\ execResult'[b] = execResult[b] /\ emitted'[b] = emitted[b]
  /\ pc'[b] = pc[b] /\ ret'[b] = ret[b]

\* C20: a step error in workflow a touches only a: in the transition where it
\* arises or is handled, the status, executed-steps log, registry entry and
\* step invocations of every other executing workflow b stay as they are, and
\* so do the queued and active tasks of the task queue.
C20_StepErrorIsolated ==
  [][\A a \in ConcurrentIds :
       StepErrorIn(a) =>
         /\ \A b \in ConcurrentIds \ {a} : pc[b] = "executing" => Untouched(b)
         /\ UNCHANGED <<queue, tasks, activeJobs>>]_vars

\* C20 witness: workflow a has failed on a step error while workflow b, still
\* registered and running, has its second step in flight, and the task queue
\* holds a queued and an active task.
C20_Witness ==
  \E a \in ConcurrentIds : \E b \in ConcurrentIds \ {a} :
    /\ execResult[a].state = "rejected" /\ pc[a] = "done"
    /\ pc[b] = "executing" /\ b \in activeWorkflows
    /\ workflow[b].status = "running"
    /\ Len(workflow[b].steps) = 1 /\ race[b] = "pending"
    /\ Len(queue) > 0 /\ activeJobs # {}

\* Sequence s is a prefix of sequence t.
IsPrefix(s, t) == Len(s) <= Len(t) /\ \A k \in 1 .. Len(s) : s[k] = t[k]

\* The executed-steps log of w is made of the first steps of the plan of w, in
\* plan order, each with the answer the provider gave to that step of w.
LogFollowsPlan(w) ==
  /\ Len(workflow[w].steps) <= PlanLen(w)
  /\ \A j \in 1 .. Len(workflow[w].steps) :
       /\ workflow[w].steps[j].id = workflow[w].plan.steps[j].id
       /\ workflow[w].steps[j].type = workflow[w].plan.steps[j].type
       /\ workflow[w].steps[j].result.data = <<w, j>>

\* C21: with two workflows executing concurrently and provider completions
\* interleaved in any way, the executed-steps log of each workflow is always a
\* prefix of its own plan with its own step results, and only ever grows by
\* appending.
C21_LogsPrivate ==
  /\ [](\A w \in ConcurrentIds : LogFollowsPlan(w))
  /\ [][\A w \in ConcurrentIds :
          workflow[w].status # "none" =>
            IsPrefix(workflow[w].steps, workflow'[w].steps)]_vars

\* C21 witness: two workflows are executing at once, the second has logged its
\* first step and the first has logged both of its steps.
C21_Witness ==
  /\ Len(workflow[1].steps) = 2 /\ Len(workflow[2].steps) = 1
  /\ pc[1] = "executing" /\ pc[2] = "executing" /\ race[2] = "pending"
  /\ emitted[1] = <<"workflow:started", "workflow:completed">>

\* C22: the task queue is FIFO: the queue holds exactly the tasks not started
\* yet, oldest first, and every task enqueued before a started task has been
\* started too; an addTask call appends the new task at the tail.
C22_Fifo ==
  /\ [](/\ \A k \in 1 .. Len(queue) : tasks[queue[k]].status = "queued"
        /\ \A k \in 1 .. Len(queue) - 1 : queue[k] < queue[k + 1]
        /\ \A i \in 1 .. Len(tasks) :
             tasks[i].status = "queued" => \E k \in 1 .. Len(queue) : queue[k] = i
        /\ \A i, j \in 1 .. Len(tasks) :
             (i < j /\ tasks[j].status # "queued") => tasks[i].status # "queued")
  /\ [][Len(tasks') > Len(tasks) =>
          /\ queue' = Append(queue, Len(tasks'))
          /\ tasks'[Len(tasks')].status = "queued"]_vars

\* C22 witness: the first task is over, the second is running and the third
\* and fourth wait in the queue in the order they were added.
C22_Witness ==
  /\ Len(tasks) = 4 /\ queue = <<3, 4>>
  /\ tasks[1].status \in {"completed", "failed"} /\ tasks[2].status = "processing"

\* A transition in which the execution of task t, of an unknown type, throws.
TaskThrows(t) ==
  /\ t \in 1 .. Len(tasks)
  /\ tasks[t].status = "processing" /\ tasks[t].type \notin KnownTaskTypes
  /\ tasks'[t].status # "processing"

\* C23: when the execution of a task throws, the task ends failed and
\* task:failed is emitted for it; every other task object and the queue are
\* unchanged, the active set loses only the id of that task, and the admission
\* loop keeps running as before.
C23_TaskFailureIsolated ==
  [][\A t \in 1 .. MaxTasks :
       TaskThrows(t) =>
         /\ tasks'[t].status = "failed"
         /\ taskEvents' = taskEvents \cup {TaskEvent(t, "task:failed")}
         /\ \A u \in 1 .. Len(tasks) : u # t => tasks'[u] = tasks[u]
         /\ Len(tasks') = Len(tasks)
         /\ queue' = queue
         /\ activeJobs' = activeJobs \ {tasks[t].id}
         /\ UNCHANGED <<processing, loops>>]_vars

\* C23 witness: with three slots taken by tasks 1 to 3, task 1 has failed and
\* the loop has then admitted task 4.
C23_Witness ==
  /\ Len(tasks) = 4
  /\ \A i, j \in 1 .. 4 : i # j => tasks[i].id # tasks[j].id
  /\ tasks[1].status = "failed" /\ TaskEvent(1, "task:failed") \in taskEvents
  /\ \A i \in 2 .. 4 : tasks[i].status = "processing"

\* How many of the recorded workflows satisfy Test.
CountRecorded(Test(_)) ==
  Cardinality({k \in 1 .. Len(recorded) : Test(recorded[k])})

IsCompleted(wf) == wf.status = "completed"
IsFailed(wf) == wf.status = "failed"
IsTimed(wf) == wf.timed

\* C27: every updateMetrics call adds 1 to totalWorkflows, 1 to
\* completedWorkflows for a completed workflow, 1 to failedWorkflows for a
\* failed one and to neither for a cancelled one; no counter ever decreases
\* and completedWorkflows + failedWorkflows <= totalWorkflows.
C27_CountersAccumulate ==
  /\ [](/\ metrics.totalWorkflows = Len(recorded)
        /\ metrics.completedWorkflows = CountRecorded(IsCompleted)
        /\ metrics.failedWorkflows = CountRecorded(IsFailed)
        /\ metrics.completedWorkflows + metrics.failedWorkflows
             <= metrics.totalWorkflows)
  /\ [][/\ metrics'.totalWorkflows >= metrics.totalWorkflows
        /\ metrics'.completedWorkflows >= metrics.completedWorkflows
        /\ metrics'.failedWorkflows >= metrics.failedWorkflows
        /\ recorded' # recorded =>
             metrics'.totalWorkflows = metrics.totalWorkflows + 1]_vars

\* C27 witness: a completed, a failed and a cancelled workflow were recorded.
C27_Witness ==
  /\ Len(recorded) = 3
  /\ metrics.completedWorkflows = 1 /\ metrics.failedWorkflows = 1
  /\ \E k \in 1 .. 3 : recorded[k].status = "cancelled"

\* Sum of the durations of the first k recorded workflows that have a
\* completedAt.
RECURSIVE DurationSum(_)
DurationSum(k) ==
  IF k = 0 THEN 0
  ELSE DurationSum(k - 1) + (IF recorded[k].timed THEN recorded[k].duration ELSE 0)

\* C28 (as claimed): averageDuration is the arithmetic mean of the durations
\* of the recorded workflows that have a completedAt.
C28_AverageIsMean ==
  CountRecorded(IsTimed) > 0 =>
    metrics.averageDuration =
      Rat(DurationSum(Len(recorded)), CountRecorded(IsTimed))

\* C29: assigning to a field of the object getMetrics returned changes nothing
\* that getMetrics, getTotalWorkflows, getSuccessRate or getAverageDuration
\* return afterwards.
C29_SnapshotIsCopy ==
  [][(snapshot.taken /\ snapshot' # snapshot /\ recorded' = recorded) =>
       /\ getMetrics' = getMetrics
       /\ getTotalWorkflows' = getTotalWorkflows
       /\ getSuccessRate' = getSuccessRate
       /\ getAverageDuration' = getAverageDuration]_vars

\* C29 witness: the caller has overwritten totalWorkflows in its copy while
\* the state manager has recorded two workflows.
C29_Witness ==
  /\ snapshot.taken /\ snapshot.value.totalWorkflows = 99
  /\ getTotalWorkflows = 2 /\ getMetrics.totalWorkflows = 2

\* C24 (as claimed): the status of every workflow object is always one of
\* pending, running, completed, failed, cancelled.
C24_StatusDomain ==
  \A w \in WorkflowIds :
    workflow[w].status # "none" =>
      workflow[w].status \in {"pending", "running", "completed", "failed", "cancelled"}

\* C25: getWorkflowStatus returns the registered workflow object for an id in
\* the active registry and throws 'Workflow <id> not found' for any other id;
\* either way the registry and every workflow stay as they are.
C25_StatusLookup ==
  [][(reply' # reply /\ reply'.op = "getWorkflowStatus") =>
       /\ reply'.w \in activeWorkflows =>
            (~reply'.threw /\ reply'.workflow = workflow[reply'.w])
       /\ reply'.w \notin activeWorkflows =>
            (reply'.threw /\ reply'.error = "Workflow not found")
       /\ UNCHANGED <<activeWorkflows, workflow>>]_vars

\* C25 witness: a call on the id of a workflow that has completed, and is
\* registered no more, threw not-found.
C25_Witness ==
  /\ reply.op = "getWorkflowStatus" /\ reply.threw
  /\ workflow[reply.w].status = "completed"

\* C26 (as claimed): getMetrics returns a metrics object in every engine
\* state: no call throws.
C26_MetricsAlways ==
  reply.op = "getMetrics" =>
    (~reply.threw /\ reply.metrics.activeWorkflows \in Nat /\ reply.metrics.uptime > 0)

\* C30 (as claimed): the step ids of every plan validateWorkflowPlan or
\* createFallbackPlan produces are pairwise distinct.
C30_StepIdsDistinct ==
  planResult.called =>
    \A i, j \in DOMAIN planResult.plan.steps :
      i # j => planResult.plan.steps[i].id # planResult.plan.steps[j].id

\* C31 (as claimed): every step of a plan validateWorkflowPlan or
\* createFallbackPlan produces has a positive timeout.
C31_TimeoutsPositive ==
  planResult.called =>
    \A k \in DOMAIN planResult.plan.steps : planResult.plan.steps[k].timeout > 0

\* The plan source is a JSON object with a steps array that validateWorkflowPlan
\* maps step by step.
Validated == planResult.called /\ ~UsesFallback(planSource)
                /\ planSource.kind = "object" /\ planSource.stepsKind = "array"

\* C32 (as claimed): an absent step field gets its default (generated id,
\* timeout 60000, retryCount 2) and a present valid value (an id, a positive
\* timeout, a non-negative retryCount) is passed through unchanged.
C32_DefaultsOnlyWhenMissing ==
  Validated =>
    \A k \in DOMAIN planSource.steps :
      LET raw == planSource.steps[k]
          step == planResult.plan.steps[k] IN
      /\ raw.id = Undefined => step.id >= Uuid(1)
      /\ raw.id > 0 => step.id = raw.id
      /\ raw.timeout = Undefined => step.timeout = DefaultTimeout
      /\ raw.timeout > 0 => step.timeout = raw.timeout
      /\ raw.retryCount = Undefined => step.retryCount = DefaultRetryCount
      /\ raw.retryCount >= 0 => step.retryCount = raw.retryCount

\* C33: no automatic retry: a provider operation that has been invoked for a
\* step is never invoked again (its call only goes from pending to settled),
\* and a step has at most one attempt besides the steps that succeeded.
C33_NoRetry ==
  /\ [](\A w \in WorkflowIds : Len(outcome[w]) <= Len(results[w]) + 1)
  /\ [][\A w \in WorkflowIds : \A i \in DOMAIN call[w] :
          call[w][i] # "none" =>
            /\ i \in DOMAIN call'[w]
            /\ \/ call'[w][i] = call[w][i]
               \/ call[w][i] = "pending" /\ call'[w][i] \in {"resolved", "rejected"}]_vars

\* C33 witness: the first step, whose retryCount is 1, threw, and
\* executeWorkflow has returned without a second invocation.
C33_Witness ==
  \E w \in WorkflowIds :
    /\ PlanLen(w) = 2 /\ workflow[w].plan.steps[1].retryCount = 1
    /\ call[w] = <<"rejected", "none">> /\ outcome[w] = <<"provider">>
    /\ ret[w].settled /\ ~ret[w].success

\* Everything the engine and the executor hold about workflow w, but the
\* provider calls and the timers.
Unaffected(w) ==
  /\ workflow'[w] = workflow[w]
  /\ (w \in activeWorkflows') = (w \in activeWorkflows)
  /\ (w \in runningWorkflows') = (w \in runningWorkflows)
  /\ emitted'[w] = emitted[w] /\ execResult'[w] = execResult[w]
  /\ race'[w] = race[w] /\ outcome'[w] = outcome[w] /\ results'[w] = results[w]
  /\ pc'[w] = pc[w] /\ ret'[w] = ret[w]

\* C34: once step k has timed out, the settlement of its provider call, which
\* is still running, changes nothing: status, executed-steps log, registry,
\* running set, emitted events and the outcome of the race stay as they were.
C34_LateSettlementIgnored ==
  [][\A w \in WorkflowIds : \A k \in 1 .. Len(outcome[w]) :
       (outcome[w][k] = "timeout" /\ call[w][k] = "pending"
          /\ call'[w][k] # "pending") => Unaffected(w)]_vars

\* C34 witness: the provider call of a step that timed out has resolved after
\* the workflow failed.
C34_Witness ==
  \E w \in WorkflowIds :
    /\ outcome[w] = <<"ok", "timeout">> /\ call[w][2] = "resolved"
    /\ workflow[w].status = "failed" /\ emitted[w] = <<"workflow:started", "workflow:failed">>

\* C35: the timer of a step whose provider call won its race is never cleared
\* and still fires; its firing changes nothing about the workflow.
C35_StaleTimerHarmless ==
  [][\A w \in WorkflowIds : \A k \in 1 .. Len(outcome[w]) :
       (outcome[w][k] = "ok" /\ k \in timers[w] /\ k \notin timers'[w])
         => Unaffected(w)]_vars

\* C35 witness: both steps succeeded, both timers have fired since, and the
\* workflow is completed.
C35_Witness ==
  \E w \in WorkflowIds :
    /\ outcome[w] = <<"ok", "ok">> /\ timers[w] = {}
    /\ workflow[w].status = "completed" /\ Len(workflow[w].steps) = 2

\* C36 (as claimed): every id in runningWorkflows is a key of activeWorkflows.
C36_RunningAreRegistered == runningWorkflows \subseteq activeWorkflows

\* C37: for every execute call, workflow:started is emitted once and before
\* any step is invoked, then exactly one of workflow:completed and
\* workflow:failed, according to how the call settles; a settled call has
\* left runningWorkflows.
C37_EventProtocol ==
  \A w \in WorkflowIds :
    /\ execResult[w].state = "none" => (emitted[w] = <<>> /\ call[w] = <<>>)
    /\ execResult[w].state = "pending" => emitted[w] = <<"workflow:started">>
    /\ execResult[w].state = "resolved" =>
         (emitted[w] = <<"workflow:started", "workflow:completed">>
            /\ w \notin runningWorkflows)
    /\ execResult[w].state = "rejected" =>
         (emitted[w] = <<"workflow:started", "workflow:failed">>
            /\ w \notin runningWorkflows)

\* C37 witness: one execute call has resolved after two steps and is out of
\* the running set.
C37_Witness ==
  \E w \in WorkflowIds :
    /\ execResult[w].state = "resolved" /\ Len(results[w]) = 2
    /\ emitted[w] = <<"workflow:started", "workflow:completed">>
    /\ w \notin runningWorkflows

\* The tasks in flight: started and not settled.
InFlight == {t \in 1 .. Len(tasks) : tasks[t].status = "processing"}

\* C38 (as claimed): the number of tasks with status processing equals
\* activeJobs.size, and so never exceeds maxConcurrent, also when several
\* enqueued tasks carry the same id.
C38_ActiveJobsCountInFlight ==
  /\ Cardinality(InFlight) = Cardinality(activeJobs)
  /\ Cardinality(InFlight) <= maxConcurrent

\* C39: queue liveness: if the admission loop runs from some point on (no
\* stop() after it), every enqueued task is eventually started and reaches
\* completed or failed, and the queue and the active-job set end up empty
\* for good once enqueues have ceased.
C39_QueueLiveness ==
  (<>[]processing) =>
    /\ \A t \in 1 .. MaxTasks :
         [](Len(tasks) >= t =>
              <>(/\ TaskEvent(t, "task:started") \in taskEvents
                 /\ tasks[t].status \in {"completed", "failed"}))
    /\ <>[](queue = <<>> /\ activeJobs = {})

\* C39 witness: the loop is running, every enqueued task was started and has
\* settled, one of them failed, and queue and active-job set are empty.
C39_Witness ==
  /\ processing /\ loops > 0 /\ Len(tasks) = MaxTasks
  /\ queue = <<>> /\ activeJobs = {}
  /\ \A t \in 1 .. Len(tasks) :
       /\ tasks[t].status \in {"completed", "failed"}
       /\ TaskEvent(t, "task:started") \in taskEvents
  /\ \E t, u \in 1 .. Len(tasks) :
       tasks[t].status = "failed" /\ tasks[u].status = "completed"

\* C40 (as claimed): after cleanup() the bridge never becomes connected again
\* and opens no new socket, whatever close events and reconnect timers were
\* pending when it was called.
C40_CleanupIsFinal ==
  cleaned => (~isConnected /\ Len(sockets) = socketsAtCleanup)

====
